---------------------------- MODULE Spec2Model ----------------------------
(***************************************************************************)
(* Noise framed I/O engine of protocols/noise/src/io.rs (NoiseOutput<T>):  *)
(* the read and the write state machines, the length codec, the buffer     *)
(* regions, and the poll_read / poll_write / poll_flush / poll_close       *)
(* handlers, each modelled as one action that runs the handler's whole     *)
(* loop against a schedule of answers of the underlying transport.         *)
(*                                                                         *)
(* Scaling.  A byte is a digit 0..ByteBase-1 (the source: 0..255), so the  *)
(* 16-bit length prefix is a two-digit number and MAX_NOISE_PKG_LEN is     *)
(* ByteBase^2 - 1 (the source: 65535); MAX_WRITE_BUF_LEN is a few bytes    *)
(* (the source: 16384).  Every formula of the model is written against     *)
(* these names, never against their values.                                *)
(***************************************************************************)
EXTENDS Integers, Sequences, FiniteSets, TLC

---------------------------------------------------------------------------
(* Bounds of the model *)

\* radix of one byte (stands for 256)
ByteBase == 2
\* io.rs:32, scaled (stands for 16384)
MAX_WRITE_BUF_LEN == 2
\* longest wire stream handed to a reader at Init
MaxWireIn == 8
\* longest caller buffer passed to poll_read / poll_write
MaxBuf == 2
\* most caller bytes accepted by poll_write in one behaviour
MaxAccepted == 3
\* most successful encryptions in one behaviour
MaxFrames == 2
\* most errors the transport returns in one behaviour
MaxIoErrs == 1

\* io.rs:31: the largest value of a two-byte length prefix
MAX_NOISE_PKG_LEN == ByteBase * ByteBase - 1
\* io.rs:33
TOTAL_BUFFER_LEN == 2 * MAX_NOISE_PKG_LEN + 3 * MAX_WRITE_BUF_LEN

Byte == 0 .. (ByteBase - 1)

\* the byte values the peer and the callers put into their data
InBytes == {b \in {0, 1} : b \in Byte}

---------------------------------------------------------------------------
(* Sequences of bytes *)

Min(a, b) == IF a <= b THEN a ELSE b

SeqsUpTo(S, n) == UNION {[1..k -> S] : k \in 0..n}

IsPrefix(s, t) == Len(s) <= Len(t) /\ SubSeq(t, 1, Len(s)) = s

RECURSIVE SumSeq(_)
SumSeq(s) == IF s = <<>> THEN 0 ELSE s[1] + SumSeq(Tail(s))

Zeros(n) == [i \in 1..n |-> 0]

\* dst[off .. off + Len(src)] overwritten by src (0-based off), rest kept
CopyInto(dst, off, src) ==
    [i \in 1..Len(dst) |->
        IF i > off /\ i <= off + Len(src) THEN src[i - off] ELSE dst[i]]

---------------------------------------------------------------------------
(* The length prefix: u16 big-endian *)

\* mutant: the length prefix in little-endian order
to_le_bytes(n) ==
    LET v == n % (ByteBase * ByteBase)
    IN  <<v % ByteBase, v \div ByteBase>>

\* u16::to_be_bytes(n as u16): the cast keeps the low 16 bits
to_be_bytes(n) ==
    LET v == n % (ByteBase * ByteBase)
    IN  <<v \div ByteBase, v % ByteBase>>

\* u16::from_be_bytes(buf)
from_be_bytes(buf) == buf[1] * ByteBase + buf[2]

---------------------------------------------------------------------------
(* The Noise session (snow), seen through SnowState: an AEAD with a nonce  *)
(* per direction.  The cipher is a stand-in: a keystream that depends on   *)
(* the nonce and the position, and a one-byte authentication tag.          *)

Mac(n, pt) == (SumSeq(pt) + n + 1) % ByteBase

Cipher(n, pt) == [i \in 1..Len(pt) |-> (pt[i] + n + i) % ByteBase]

Decipher(n, ct) == [i \in 1..Len(ct) |-> (ct[i] + ByteBase * (n + i) - n - i) % ByteBase]

\* SnowState::write_message(message, payload): the ciphertext of `message`
\* under nonce n; it fails when the output does not fit `cap` bytes
\* (payload.len()) or a Noise message.
write_message(n, message, cap) ==
    LET ct == Cipher(n, message) \o <<Mac(n, message)>>
    IN  IF Len(ct) > cap \/ Len(ct) > MAX_NOISE_PKG_LEN
        THEN [ok |-> FALSE, out |-> <<>>]
        ELSE [ok |-> TRUE, out |-> ct]

\* SnowState::read_message(message, payload): the plaintext of `message`
\* under nonce n, or an error when the tag does not verify.
read_message(n, message) ==
    IF Len(message) < 1
    THEN [ok |-> FALSE, out |-> <<>>]
    ELSE LET body == SubSeq(message, 1, Len(message) - 1)
             pt == Decipher(n, body)
         IN  IF message[Len(message)] = Mac(n, pt)
             THEN [ok |-> TRUE, out |-> pt]
             ELSE [ok |-> FALSE, out |-> <<>>]

---------------------------------------------------------------------------
(* State *)

VARIABLES
    read_state,   \* NoiseOutput.read_state
    write_state,  \* NoiseOutput.write_state
    buffer,       \* NoiseOutput.buffer, as the four regions of borrow_mut
    session,      \* NoiseOutput.session: [sn, rn] send and receive nonce
    wire,         \* io: every byte the transport has carried or will carry
    rpos,         \* io: number of bytes of `wire` the transport has handed to reads
    weof,         \* io: the writing end is closed (reads see EOF after `wire`)
    closed,       \* io: poll_close of the transport has returned Ready(Ok)
    delivered,    \* history: bytes poll_read has returned to its callers
    accepted,     \* history: bytes poll_write has accepted (Ready(Ok(n)))
    encrypted,    \* history: plaintext bytes of every successful write_message
    unwritten,    \* history: positions of the frame in flight the transport has not accepted
    lastOp,       \* history: the most recent poll
    lastRet,      \* history: what it returned
    iolog,        \* history: the transport calls it made, in order
    lastFrom,     \* history: the read or write state it started from
    lastLen,      \* history: the length of the caller's buffer it was given
    ioErrs,       \* history: number of errors the transport has returned
    ioErrMax,     \* io: the most errors the transport returns in this behaviour
    hist          \* history: lastOp, lastRet, lastFrom and iolog are kept

vars == <<read_state, write_state, buffer, session, wire, rpos, weof, closed,
          delivered, accepted, encrypted, unwritten, lastOp, lastRet,
          iolog, lastFrom, lastLen, ioErrs, ioErrMax, hist>>

---------------------------------------------------------------------------
(* ReadState and WriteState *)

RS(tag, buf, off, len, ok) ==
    [tag |-> tag, buf |-> buf, off |-> off, len |-> len, ok |-> ok]

RS_Init == RS("Init", <<0, 0>>, 0, 0, TRUE)
RS_ReadLen(buf, off) == RS("ReadLen", buf, off, 0, TRUE)
RS_ReadData(len, off) == RS("ReadData", <<0, 0>>, off, len, TRUE)
RS_CopyData(len, off) == RS("CopyData", <<0, 0>>, off, len, TRUE)
RS_Eof(ok) == RS("Eof", <<0, 0>>, 0, 0, ok)
RS_DecErr == RS("DecErr", <<0, 0>>, 0, 0, TRUE)

WS(tag, buf, off, len) == [tag |-> tag, buf |-> buf, off |-> off, len |-> len]

WS_Init == WS("Init", <<0, 0>>, 0, 0)
WS_BufferData(off) == WS("BufferData", <<0, 0>>, off, 0)
WS_WriteLen(len, buf, off) == WS("WriteLen", buf, off, len)
WS_WriteData(len, off) == WS("WriteData", <<0, 0>>, off, len)
WS_Eof == WS("Eof", <<0, 0>>, 0, 0)
WS_EncErr == WS("EncErr", <<0, 0>>, 0, 0)

\* Buffer::borrow_mut: the four regions and their lengths
borrow_mut ==
    [read         |-> MAX_NOISE_PKG_LEN,
     read_crypto  |-> 2 * MAX_NOISE_PKG_LEN - MAX_NOISE_PKG_LEN,
     write        |-> MAX_WRITE_BUF_LEN,
     write_crypto |-> TOTAL_BUFFER_LEN - 2 * MAX_NOISE_PKG_LEN - MAX_WRITE_BUF_LEN]

\* NoiseOutput::new: the buffer is zeroed
NewBuffer ==
    [read         |-> Zeros(borrow_mut.read),
     read_crypto  |-> Zeros(borrow_mut.read_crypto),
     write        |-> Zeros(borrow_mut.write),
     write_crypto |-> Zeros(borrow_mut.write_crypto)]

\* A history variable's next value: kept only in the behaviours that record
\* the most recent poll
Kept(new, old) == IF hist THEN new ELSE old

\* Results of a poll
Ret(kind, n) == [kind |-> kind, n |-> n]
Pending == Ret("Pending", 0)
Ok(n) == Ret("Ok", n)
IoErr == Ret("IoErr", 0)
UnexpectedEof == Ret("UnexpectedEof", 0)
InvalidData == Ret("InvalidData", 0)
WriteZero == Ret("WriteZero", 0)
NoRet == Ret("None", 0)

---------------------------------------------------------------------------
(* The underlying transport `io`, as one poll sees it.  Each call of the   *)
(* transport may answer Pending, an error, or move any number of bytes     *)
(* from one up to what the slice and the stream allow; the operators below *)
(* give the set of all answers, and the handlers the set of all outcomes.  *)

IoAns(kind, n, data, io) == [kind |-> kind, n |-> n, data |-> data, io |-> io]

\* The transport as a poll starts
IoView ==
    [pos |-> rpos, errs |-> ioErrs, out |-> <<>>, log |-> <<>>, unw |-> unwritten,
     closed |-> closed]

\* the transport fails the call
IoFails(io) ==
    IF io.errs < ioErrMax
    THEN {IoAns("Err", 0, <<>>, [io EXCEPT !.errs = @ + 1])}
    ELSE {}

\* T::poll_read(cx, slice) with a slice of k bytes
io_poll_read(io, k) ==
    {IoAns("Pending", 0, <<>>, io)} \cup IoFails(io)
    \cup
    IF io.pos = Len(wire) \/ k = 0
    THEN IF weof \/ k = 0 THEN {IoAns("Ok", 0, <<>>, io)} ELSE {}
    ELSE {IoAns("Ok", n, SubSeq(wire, io.pos + 1, io.pos + n), [io EXCEPT !.pos = @ + n]) :
             n \in 1..Min(k, Len(wire) - io.pos)}

---------------------------------------------------------------------------
(* read_frame_len (io.rs:441-463).  buf and off are the caller's, updated  *)
(* in place: every answer carries them back.                               *)

FrameLenAns(kind, n, buf, off, io) ==
    [kind |-> kind, n |-> n, buf |-> buf, off |-> off, io |-> io]

\* io.rs:450-452: a read of zero bytes is reported as None
ReadLenOnZero(io, buf, off) == FrameLenAns("None", 0, buf, off, io)

RECURSIVE read_frame_len(_, _, _)

\* io.rs:448-461: one turn of the loop, on the transport's answer r
ReadLenStep(r, buf, off) ==
    LET nbuf == CopyInto(buf, off, r.data)
        noff == off + r.n
    IN  CASE r.kind = "Pending" -> {FrameLenAns("Pending", 0, buf, off, r.io)}
          [] r.kind = "Err" -> {FrameLenAns("Err", 0, buf, off, r.io)}
          [] r.kind = "Ok" /\ r.n = 0 -> {ReadLenOnZero(r.io, buf, off)}
          [] OTHER ->
               IF noff = 2
               THEN {FrameLenAns("Some", from_be_bytes(nbuf), nbuf, noff, r.io)}
               ELSE read_frame_len(r.io, nbuf, noff)

read_frame_len(io, buf, off) ==
    UNION {ReadLenStep(r, buf, off) : r \in io_poll_read(io, 2 - off)}

---------------------------------------------------------------------------
(* NoiseOutput::poll_read (io.rs:162-254).  m is the handler's view: the   *)
(* read state, the read regions of the buffer, the receive nonce, the      *)
(* transport and the caller buffer's length.  Each arm gives the set of    *)
(* outcomes of the call from there on.                                     *)

ReadDone(m, ret, out) ==
    [rs |-> m.rs, read |-> m.read, read_crypto |-> m.read_crypto, rn |-> m.rn,
     io |-> m.io, ret |-> ret, out |-> out]

RECURSIVE poll_read_loop(_)

\* io.rs:174-176
ReadArmInit(m) == poll_read_loop([m EXCEPT !.rs = RS_ReadLen(<<0, 0>>, 0)])

\* io.rs:180-184: the length codec saw EOF
ReadArmLenEof(m, r) ==
    {ReadDone([m EXCEPT !.rs = RS_Eof(TRUE), !.io = r.io], Ok(0), <<>>)}

\* mutant: a transport error while the prefix is read ends the stream
ReadArmLenErr_sticky(m, r) ==
    {ReadDone([m EXCEPT !.rs = RS_Eof(FALSE), !.io = r.io], IoErr, <<>>)}

\* io.rs:185-187: the state is not written back
ReadArmLenErr(m, r) == {ReadDone([m EXCEPT !.io = r.io], IoErr, <<>>)}

\* io.rs:188-192
ReadArmLenPending(m, r) ==
    {ReadDone([m EXCEPT !.rs = RS_ReadLen(r.buf, r.off), !.io = r.io], Pending, <<>>)}

\* mutant: a frame of length zero is read like any other frame
ReadArmLenSome_noskip(m, r) ==
    poll_read_loop([m EXCEPT !.rs = RS_ReadData(r.n, 0), !.io = r.io])

\* io.rs:194-200
ReadArmLenSome(m, r) ==
    IF r.n = 0
    THEN poll_read_loop([m EXCEPT !.rs = RS_Init, !.io = r.io])
    ELSE poll_read_loop([m EXCEPT !.rs = RS_ReadData(r.n, 0), !.io = r.io])

\* io.rs:177-201
ReadArmReadLen(m) ==
    UNION {CASE r.kind = "Some" -> ReadArmLenSome(m, r)
             [] r.kind = "None" -> ReadArmLenEof(m, r)
             [] r.kind = "Err" -> ReadArmLenErr(m, r)
             [] OTHER -> ReadArmLenPending(m, r) :
           r \in read_frame_len(m.io, m.rs.buf, m.rs.off)}

\* mutant: CopyData is given the length of the frame, not of its plaintext
ReadArmDecrypt_len(m, len) ==
    LET d == read_message(m.rn, SubSeq(m.read, 1, len))
    IN  IF d.ok
        THEN poll_read_loop([m EXCEPT !.rs = RS_CopyData(len, 0),
                                      !.read_crypto = CopyInto(@, 0, d.out),
                                      !.rn = @ + 1])
        ELSE {ReadDone([m EXCEPT !.rs = RS_DecErr], InvalidData, <<>>)}

\* io.rs:218-231: the frame is complete; decrypt buffer.read[.. len]
ReadArmDecrypt(m, len) ==
    LET d == read_message(m.rn, SubSeq(m.read, 1, len))
    IN  IF d.ok
        THEN poll_read_loop([m EXCEPT !.rs = RS_CopyData(Len(d.out), 0),
                                      !.read_crypto = CopyInto(@, 0, d.out),
                                      !.rn = @ + 1])
        ELSE {ReadDone([m EXCEPT !.rs = RS_DecErr], InvalidData, <<>>)}

\* io.rs:211-215: a read of zero bytes inside a frame
ReadArmDataEof(m) == {ReadDone([m EXCEPT !.rs = RS_Eof(FALSE)], UnexpectedEof, <<>>)}

\* io.rs:203-232, on the transport's answer r; off is updated in place (ref mut)
ReadDataStep(m, r) ==
    LET len == m.rs.len
        off == m.rs.off
        m1 == [m EXCEPT !.io = r.io]
        m2 == [m1 EXCEPT !.read = CopyInto(@, off, r.data),
                         !.rs = RS_ReadData(len, off + r.n)]
    IN  CASE r.kind = "Pending" -> {ReadDone(m1, Pending, <<>>)}
          [] r.kind = "Err" -> {ReadDone(m1, IoErr, <<>>)}
          [] r.kind = "Ok" /\ r.n = 0 -> ReadArmDataEof(m1)
          [] OTHER ->
               IF len = off + r.n THEN ReadArmDecrypt(m2, len) ELSE poll_read_loop(m2)

\* io.rs:202-232
ReadArmReadData(m) ==
    UNION {ReadDataStep(m, r) : r \in io_poll_read(m.io, m.rs.len - m.rs.off)}

\* mutant: the read state goes back to ReadLen after a partial copy
ReadArmCopyData_drop(m) ==
    LET n == Min(m.rs.len - m.rs.off, m.blen)
    IN  {ReadDone([m EXCEPT !.rs = RS_ReadLen(<<0, 0>>, 0)], Ok(n),
                  SubSeq(m.read_crypto, m.rs.off + 1, m.rs.off + n))}

\* io.rs:233-242
ReadArmCopyData(m) ==
    LET len == m.rs.len
        off == m.rs.off
        n == Min(len - off, m.blen)
        out == SubSeq(m.read_crypto, off + 1, off + n)
    IN  IF len = off + n
        THEN {ReadDone([m EXCEPT !.rs = RS_ReadLen(<<0, 0>>, 0)], Ok(n), out)}
        ELSE {ReadDone([m EXCEPT !.rs = RS_CopyData(len, off + n)], Ok(n), out)}

\* io.rs:243-246
ReadArmEofOk(m) == {ReadDone(m, Ok(0), <<>>)}

\* io.rs:247-250
ReadArmEofErr(m) == {ReadDone(m, UnexpectedEof, <<>>)}

\* mutant: a decryption failure is forgotten and the next frame is read
ReadArmDecErr_resync(m) == poll_read_loop([m EXCEPT !.rs = RS_Init])

\* io.rs:251
ReadArmDecErr(m) == {ReadDone(m, InvalidData, <<>>)}

poll_read_loop(m) ==
    CASE m.rs.tag = "Init" -> ReadArmInit(m)
      [] m.rs.tag = "ReadLen" -> ReadArmReadLen(m)
      [] m.rs.tag = "ReadData" -> ReadArmReadData(m)
      [] m.rs.tag = "CopyData" -> ReadArmCopyData(m)
      [] m.rs.tag = "Eof" /\ m.rs.ok -> ReadArmEofOk(m)
      [] m.rs.tag = "Eof" /\ ~m.rs.ok -> ReadArmEofErr(m)
      [] OTHER -> ReadArmDecErr(m)

\* mutant: poll_read waits while the write side has a frame in flight
poll_read_gated(blen) ==
    LET m == [rs |-> read_state, read |-> buffer.read,
              read_crypto |-> buffer.read_crypto, rn |-> session.rn,
              io |-> IoView, blen |-> blen]
    IN  IF write_state.tag \in {"WriteLen", "WriteData"}
        THEN {ReadDone(m, Pending, <<>>)}
        ELSE poll_read_loop(m)

\* every outcome of poll_read(cx, buf) with a caller buffer of blen bytes
poll_read(blen) ==
    poll_read_loop([rs |-> read_state, read |-> buffer.read,
                    read_crypto |-> buffer.read_crypto, rn |-> session.rn,
                    io |-> IoView, blen |-> blen])

PollRead(blen) ==
    \E r \in poll_read(blen) :
        /\ read_state' = r.rs
        /\ buffer' = [buffer EXCEPT !.read = r.read, !.read_crypto = r.read_crypto]
        /\ session' = [session EXCEPT !.rn = r.rn]
        /\ rpos' = r.io.pos
        /\ delivered' = delivered \o r.out
        /\ lastOp' = Kept("read", lastOp)
        /\ lastRet' = Kept(r.ret, lastRet)
        /\ lastFrom' = Kept(read_state, lastFrom)
        /\ lastLen' = Kept(blen, lastLen)
        /\ ioErrs' = r.io.errs
        /\ UNCHANGED <<write_state, wire, weof, closed, accepted, encrypted,
                       unwritten, iolog, ioErrMax, hist>>

---------------------------------------------------------------------------
(* The write side of the transport.  io.out collects the bytes it accepts  *)
(* during the poll, io.log the calls made on it, io.unw the positions of   *)
(* the frame in flight it has not accepted yet.                            *)

Step(op, res) == [op |-> op, res |-> res]

Logged(io, op, res) == [io EXCEPT !.log = Append(@, Step(op, res))]

\* T::poll_write(cx, slice)
io_poll_write(io, slice) ==
    {IoAns("Pending", 0, <<>>, Logged(io, "write", "Pending")),
     IoAns("Ok", 0, <<>>, Logged(io, "write", "Zero"))}
    \cup IoFails(Logged(io, "write", "Err"))
    \cup
    {IoAns("Ok", n, <<>>, [Logged(io, "write", "Ok") EXCEPT !.out = @ \o SubSeq(slice, 1, n)]) :
        n \in 1..Len(slice)}

\* T::poll_flush(cx)
io_poll_flush(io) ==
    {IoAns("Pending", 0, <<>>, Logged(io, "flush", "Pending")),
     IoAns("Ok", 0, <<>>, Logged(io, "flush", "Ok"))}
    \cup IoFails(Logged(io, "flush", "Err"))

\* T::poll_close(cx)
io_poll_close(io) ==
    {IoAns("Pending", 0, <<>>, Logged(io, "close", "Pending")),
     IoAns("Ok", 0, <<>>, [Logged(io, "close", "Ok") EXCEPT !.closed = TRUE])}
    \cup IoFails(Logged(io, "close", "Err"))

\* history: the transport accepted positions from+1 .. from+n of the frame in flight
Sent(io, from, n) == [io EXCEPT !.unw = @ \ ((from + 1)..(from + n))]

---------------------------------------------------------------------------
(* write_frame_len (io.rs:474-496) *)

RECURSIVE write_frame_len(_, _, _)

\* io.rs:481-494: one turn of the loop, on the transport's answer r
WriteLenStep(r, buf, off) ==
    LET noff == off + r.n
        io1 == Sent(r.io, off, r.n)
    IN  CASE r.kind = "Pending" -> {FrameLenAns("Pending", 0, buf, off, r.io)}
          [] r.kind = "Err" -> {FrameLenAns("Err", 0, buf, off, r.io)}
          [] r.kind = "Ok" /\ r.n = 0 -> {FrameLenAns("False", 0, buf, off, r.io)}
          [] OTHER ->
               IF noff = 2
               THEN {FrameLenAns("True", 0, buf, noff, io1)}
               ELSE write_frame_len(io1, buf, noff)

write_frame_len(io, buf, off) ==
    UNION {WriteLenStep(r, buf, off) : r \in io_poll_write(io, SubSeq(buf, off + 1, 2))}

---------------------------------------------------------------------------
(* The session's encryption as the write engine calls it.  Besides the     *)
(* cipher's own answer, the session may refuse (a handshake-mode session   *)
(* out of turn, an exhausted nonce).                                       *)

session_write_message(n, message, cap) ==
    {write_message(n, message, cap), [ok |-> FALSE, out |-> <<>>]}

---------------------------------------------------------------------------
(* NoiseOutput::poll_write (io.rs:258-344).  m is the handler's view: the  *)
(* write state, the write regions of the buffer, the send nonce, the       *)
(* transport, the caller's buffer, and the history of this call.           *)

WriteDone(m, ret) ==
    [ws |-> m.ws, write |-> m.write, write_crypto |-> m.write_crypto, sn |-> m.sn,
     io |-> m.io, ret |-> ret, enc |-> m.enc]

\* mutant: the frame length is the length of the write_crypto slice, not the
\* length write_message returned
Encrypted_slice(m, e, plain) ==
    [m EXCEPT !.ws = WS_WriteLen(Len(m.write_crypto), to_be_bytes(Len(m.write_crypto)), 0),
              !.write_crypto = CopyInto(@, 0, e.out),
              !.sn = @ + 1,
              !.enc = @ \o plain,
              !.io = [Logged(@, "encrypt", "Ok") EXCEPT !.unw = 1..(2 + Len(e.out))]]

\* io.rs:281-288 and 360-367: the frame to emit, given the ciphertext e.out
Encrypted(m, e, plain) ==
    [m EXCEPT !.ws = WS_WriteLen(Len(e.out), to_be_bytes(Len(e.out)), 0),
              !.write_crypto = CopyInto(@, 0, e.out),
              !.sn = @ + 1,
              !.enc = @ \o plain,
              !.io = [Logged(@, "encrypt", "Ok") EXCEPT !.unw = 1..(2 + Len(e.out))]]

\* io.rs:289-293 and 368-372
EncryptFailed(m) ==
    WriteDone([m EXCEPT !.ws = WS_EncErr, !.io = Logged(@, "encrypt", "Err")], InvalidData)

RECURSIVE poll_write_loop(_)

\* io.rs:270-272
WriteArmInit(m) == poll_write_loop([m EXCEPT !.ws = WS_BufferData(0)])

\* mutant: a full buffer is emitted in the call that filled it
WriteArmBufferData_eager(m) ==
    LET off == m.ws.off
        n == Min(MAX_WRITE_BUF_LEN - off, Len(m.data))
        m1 == [m EXCEPT !.write = CopyInto(@, off, SubSeq(m.data, 1, n)),
                        !.ws = WS_BufferData(off + n),
                        !.io = IF n > 0 THEN Logged(@, "copy", "Ok") ELSE @]
    IN  IF off + n = MAX_WRITE_BUF_LEN
        THEN UNION {IF e.ok
                    THEN {[r EXCEPT !.ret = Ok(n)] :
                          r \in poll_write_loop([Encrypted(m1, e, m1.write) EXCEPT !.data = <<>>])}
                    ELSE {EncryptFailed(m1)} :
                    e \in session_write_message(m1.sn, m1.write, Len(m1.write_crypto))}
        ELSE {WriteDone(m1, Ok(n))}

\* mutant: the room left in buffer.write is computed without off
WriteArmBufferData_nooff(m) ==
    LET off == m.ws.off
        n == Min(Min(MAX_WRITE_BUF_LEN, Len(m.data)), Len(m.write) - off)
        k == Min(MAX_WRITE_BUF_LEN, Len(m.data))
        m1 == [m EXCEPT !.write = CopyInto(@, off, SubSeq(m.data, 1, n)),
                        !.ws = WS_BufferData(off + n),
                        !.io = IF n > 0 THEN Logged(@, "copy", "Ok") ELSE @]
    IN  IF off + n = MAX_WRITE_BUF_LEN
        THEN {IF e.ok THEN WriteDone(Encrypted(m1, e, m1.write), Ok(k))
                      ELSE EncryptFailed(m1) :
              e \in session_write_message(m1.sn, m1.write, Len(m1.write_crypto))}
        ELSE {WriteDone(m1, Ok(k))}

\* io.rs:273-297
WriteArmBufferData(m) ==
    LET off == m.ws.off
        n == Min(MAX_WRITE_BUF_LEN - off, Len(m.data))
        m1 == [m EXCEPT !.write = CopyInto(@, off, SubSeq(m.data, 1, n)),
                        !.ws = WS_BufferData(off + n),
                        !.io = IF n > 0 THEN Logged(@, "copy", "Ok") ELSE @]
    IN  IF off + n = MAX_WRITE_BUF_LEN
        THEN {IF e.ok THEN WriteDone(Encrypted(m1, e, m1.write), Ok(n))
                      ELSE EncryptFailed(m1) :
              e \in session_write_message(m1.sn, m1.write, Len(m1.write_crypto))}
        ELSE {WriteDone(m1, Ok(n))}

\* io.rs:298-317, on the answer r of write_frame_len; buf and off are copies
WriteLenArmStep(m, r) ==
    CASE r.kind = "True" ->
           poll_write_loop([m EXCEPT !.ws = WS_WriteData(m.ws.len, 0), !.io = r.io])
      [] r.kind = "False" -> {WriteDone([m EXCEPT !.ws = WS_Eof, !.io = r.io], WriteZero)}
      [] r.kind = "Err" -> {WriteDone([m EXCEPT !.io = r.io], IoErr)}
      [] OTHER ->
           {WriteDone([m EXCEPT !.ws = WS_WriteLen(m.ws.len, r.buf, r.off), !.io = r.io],
                      Pending)}

\* io.rs:298-317
WriteArmWriteLen(m) ==
    UNION {WriteLenArmStep(m, r) : r \in write_frame_len(m.io, m.ws.buf, m.ws.off)}

\* mutant: poll_write returns once the frame in flight is written
WriteDataStep_stop(m, r) ==
    LET len == m.ws.len
        off == m.ws.off
        m1 == [m EXCEPT !.io = r.io]
        io2 == Sent(r.io, 2 + off, r.n)
    IN  CASE r.kind = "Pending" -> {WriteDone(m1, Pending)}
          [] r.kind = "Err" -> {WriteDone(m1, IoErr)}
          [] r.kind = "Ok" /\ r.n = 0 -> {WriteDone([m1 EXCEPT !.ws = WS_Eof], WriteZero)}
          [] OTHER ->
               IF len = off + r.n
               THEN {WriteDone([m EXCEPT !.ws = WS_Init, !.io = io2], Ok(0))}
               ELSE poll_write_loop([m EXCEPT !.ws = WS_WriteData(len, off + r.n), !.io = io2])

\* io.rs:318-336, on the transport's answer r; off is updated in place (ref mut)
WriteDataStep(m, r) ==
    LET len == m.ws.len
        off == m.ws.off
        m1 == [m EXCEPT !.io = r.io]
        io2 == Sent(r.io, 2 + off, r.n)
    IN  CASE r.kind = "Pending" -> {WriteDone(m1, Pending)}
          [] r.kind = "Err" -> {WriteDone(m1, IoErr)}
          [] r.kind = "Ok" /\ r.n = 0 -> {WriteDone([m1 EXCEPT !.ws = WS_Eof], WriteZero)}
          [] OTHER ->
               IF len = off + r.n
               THEN poll_write_loop([m EXCEPT !.ws = WS_Init, !.io = io2])
               ELSE poll_write_loop([m EXCEPT !.ws = WS_WriteData(len, off + r.n), !.io = io2])

\* io.rs:318-336
WriteArmWriteData(m) ==
    UNION {WriteDataStep(m, r) :
           r \in io_poll_write(m.io, SubSeq(m.write_crypto, m.ws.off + 1, m.ws.len))}

\* mutant: a write after EOF starts a fresh buffer
WriteArmEof_retry(m) == poll_write_loop([m EXCEPT !.ws = WS_Init])

\* io.rs:337-340
WriteArmEof(m) == {WriteDone(m, WriteZero)}

\* io.rs:341
WriteArmEncErr(m) == {WriteDone(m, InvalidData)}

poll_write_loop(m) ==
    CASE m.ws.tag = "Init" -> WriteArmInit(m)
      [] m.ws.tag = "BufferData" -> WriteArmBufferData(m)
      [] m.ws.tag = "WriteLen" -> WriteArmWriteLen(m)
      [] m.ws.tag = "WriteData" -> WriteArmWriteData(m)
      [] m.ws.tag = "Eof" -> WriteArmEof(m)
      [] OTHER -> WriteArmEncErr(m)

\* The handler's view as a write-side poll starts
WriteView(data) ==
    [ws |-> write_state, write |-> buffer.write, write_crypto |-> buffer.write_crypto,
     sn |-> session.sn, io |-> IoView, data |-> data, enc |-> encrypted]

\* every outcome of poll_write(cx, buf)
poll_write(data) == poll_write_loop(WriteView(data))

---------------------------------------------------------------------------
(* NoiseOutput::poll_flush (io.rs:346-421) *)

RECURSIVE poll_flush_loop(_)

\* io.rs:356: the transport's answer is the call's answer
FlushArmInit(m) ==
    {WriteDone([m EXCEPT !.io = r.io],
               CASE r.kind = "Ok" -> Ok(0) [] r.kind = "Err" -> IoErr [] OTHER -> Pending) :
     r \in io_poll_flush(m.io)}

\* mutant: the flush encrypts the whole write region, not buffer.write[.. off]
FlushArmBufferData_whole(m) ==
    UNION {IF e.ok THEN poll_flush_loop(Encrypted(m, e, SubSeq(m.write, 1, m.ws.off)))
                   ELSE {EncryptFailed(m)} :
           e \in session_write_message(m.sn, m.write, Len(m.write_crypto))}

\* mutant: the flush drops a partial buffer instead of encrypting it
FlushArmBufferData_skip(m) == poll_flush_loop([m EXCEPT !.ws = WS_Init])

\* io.rs:357-374: encrypt buffer.write[.. off]
FlushArmBufferData(m) ==
    LET plain == SubSeq(m.write, 1, m.ws.off)
    IN  UNION {IF e.ok THEN poll_flush_loop(Encrypted(m, e, plain))
                       ELSE {EncryptFailed(m)} :
               e \in session_write_message(m.sn, plain, Len(m.write_crypto))}

\* io.rs:375-394, on the answer r of write_frame_len
FlushLenArmStep(m, r) ==
    CASE r.kind = "True" ->
           poll_flush_loop([m EXCEPT !.ws = WS_WriteData(m.ws.len, 0), !.io = r.io])
      [] r.kind = "False" -> {WriteDone([m EXCEPT !.ws = WS_Eof, !.io = r.io], WriteZero)}
      [] r.kind = "Err" -> {WriteDone([m EXCEPT !.io = r.io], IoErr)}
      [] OTHER ->
           {WriteDone([m EXCEPT !.ws = WS_WriteLen(m.ws.len, r.buf, r.off), !.io = r.io],
                      Pending)}

\* io.rs:375-394
FlushArmWriteLen(m) ==
    UNION {FlushLenArmStep(m, r) : r \in write_frame_len(m.io, m.ws.buf, m.ws.off)}

\* mutant: any successful write is taken to have written the rest of the frame
FlushDataStep_partial(m, r) ==
    LET m1 == [m EXCEPT !.io = r.io]
        io2 == Sent(r.io, 2 + m.ws.off, r.n)
    IN  CASE r.kind = "Pending" -> {WriteDone(m1, Pending)}
          [] r.kind = "Err" -> {WriteDone(m1, IoErr)}
          [] r.kind = "Ok" /\ r.n = 0 -> {WriteDone([m1 EXCEPT !.ws = WS_Eof], WriteZero)}
          [] OTHER -> poll_flush_loop([m EXCEPT !.ws = WS_Init, !.io = io2])

\* mutant: a completed frame does not reset the write state to Init
FlushDataStep_noreset(m, r) ==
    LET m1 == [m EXCEPT !.io = r.io]
        io2 == Sent(r.io, 2 + m.ws.off, r.n)
    IN  CASE r.kind = "Pending" -> {WriteDone(m1, Pending)}
          [] r.kind = "Err" -> {WriteDone(m1, IoErr)}
          [] r.kind = "Ok" /\ r.n = 0 -> {WriteDone([m1 EXCEPT !.ws = WS_Eof], WriteZero)}
          [] OTHER ->
               poll_flush_loop([m EXCEPT !.ws = WS_WriteData(m.ws.len, m.ws.off + r.n),
                                         !.io = io2])

\* io.rs:395-413, on the transport's answer r
FlushDataStep(m, r) ==
    LET len == m.ws.len
        off == m.ws.off
        m1 == [m EXCEPT !.io = r.io]
        io2 == Sent(r.io, 2 + off, r.n)
    IN  CASE r.kind = "Pending" -> {WriteDone(m1, Pending)}
          [] r.kind = "Err" -> {WriteDone(m1, IoErr)}
          [] r.kind = "Ok" /\ r.n = 0 -> {WriteDone([m1 EXCEPT !.ws = WS_Eof], WriteZero)}
          [] OTHER ->
               IF len = off + r.n
               THEN poll_flush_loop([m EXCEPT !.ws = WS_Init, !.io = io2])
               ELSE poll_flush_loop([m EXCEPT !.ws = WS_WriteData(len, off + r.n), !.io = io2])

\* io.rs:395-413
FlushArmWriteData(m) ==
    UNION {FlushDataStep(m, r) :
           r \in io_poll_write(m.io, SubSeq(m.write_crypto, m.ws.off + 1, m.ws.len))}

\* io.rs:414-417
FlushArmEof(m) == {WriteDone(m, WriteZero)}

\* io.rs:418
FlushArmEncErr(m) == {WriteDone(m, InvalidData)}

poll_flush_loop(m) ==
    CASE m.ws.tag = "Init" -> FlushArmInit(m)
      [] m.ws.tag = "BufferData" -> FlushArmBufferData(m)
      [] m.ws.tag = "WriteLen" -> FlushArmWriteLen(m)
      [] m.ws.tag = "WriteData" -> FlushArmWriteData(m)
      [] m.ws.tag = "Eof" -> FlushArmEof(m)
      [] OTHER -> FlushArmEncErr(m)

\* every outcome of poll_flush(cx)
poll_flush == poll_flush_loop(WriteView(<<>>))

---------------------------------------------------------------------------
(* NoiseOutput::poll_close (io.rs:423-429) *)

\* io.rs:428, after a flush that ended as f
CloseTransport(f) ==
    {[f EXCEPT !.io = r.io,
               !.ret = CASE r.kind = "Ok" -> Ok(0) [] r.kind = "Err" -> IoErr [] OTHER -> Pending] :
     r \in io_poll_close(f.io)}

\* mutant: close is polled on the transport whatever the flush returned
CloseAfterFlush_always(f) ==
    IF f.ret.kind = "Pending" THEN {f}
    ELSE IF f.ret.kind = "Ok" THEN CloseTransport(f)
    ELSE {[g EXCEPT !.ret = f.ret] : g \in CloseTransport(f)}

\* io.rs:427: ready!(..)? hands Pending and the error of the flush to the caller
CloseAfterFlush(f) == IF f.ret.kind = "Ok" THEN CloseTransport(f) ELSE {f}

\* every outcome of poll_close(cx)
poll_close == UNION {CloseAfterFlush(f) : f \in poll_flush}

---------------------------------------------------------------------------
(* The write-side handlers as actions.  A behaviour stops growing at       *)
(* MaxFrames encryptions, MaxAccepted caller bytes and MaxWire wire bytes. *)

MaxWire == MaxFrames * (3 + MAX_WRITE_BUF_LEN) + 1

WriteEffect(op, r, n) ==
    /\ r.sn <= MaxFrames
    /\ Len(accepted) + n <= MaxAccepted
    /\ Len(wire) + Len(r.io.out) <= MaxWire
    /\ write_state' = r.ws
    /\ buffer' = [buffer EXCEPT !.write = r.write, !.write_crypto = r.write_crypto]
    /\ session' = [session EXCEPT !.sn = r.sn]
    /\ wire' = wire \o r.io.out
    /\ closed' = r.io.closed
    /\ weof' = r.io.closed
    /\ encrypted' = r.enc
    /\ unwritten' = r.io.unw
    /\ iolog' = Kept(r.io.log, iolog)
    /\ lastOp' = Kept(op, lastOp)
    /\ lastRet' = Kept(r.ret, lastRet)
    /\ lastFrom' = Kept(write_state, lastFrom)
    /\ ioErrs' = r.io.errs
    /\ UNCHANGED <<read_state, rpos, delivered, ioErrMax, hist>>

PollWrite(data) ==
    /\ ~closed
    /\ \E r \in poll_write(data) :
         /\ WriteEffect("write", r, r.ret.n)
         /\ accepted' = accepted \o SubSeq(data, 1, r.ret.n)
         /\ lastLen' = Kept(Len(data), lastLen)

PollFlush ==
    /\ ~closed
    /\ \E r \in poll_flush :
         /\ WriteEffect("flush", r, 0)
         /\ accepted' = accepted
         /\ lastLen' = Kept(0, lastLen)

PollClose ==
    /\ ~closed
    /\ \E r \in poll_close :
         /\ WriteEffect("close", r, 0)
         /\ accepted' = accepted
         /\ lastLen' = Kept(0, lastLen)

---------------------------------------------------------------------------
(* Specifications *)

\* NoiseOutput::new (io.rs:115-123) and the history variables
InitAdapter ==
    /\ read_state = RS_Init
    /\ write_state = WS_Init
    /\ buffer = NewBuffer
    /\ session = [sn |-> 0, rn |-> 0]
    /\ rpos = 0
    /\ closed = FALSE
    /\ delivered = <<>>
    /\ accepted = <<>>
    /\ encrypted = <<>>
    /\ unwritten = {}
    /\ lastOp = "none"
    /\ lastRet = NoRet
    /\ iolog = <<>>
    /\ lastFrom = RS_Init
    /\ lastLen = 0
    /\ ioErrs = 0

\* A reader: the peer's whole stream is any byte string, then EOF
InitRead ==
    /\ InitAdapter
    /\ wire \in SeqsUpTo(InBytes, MaxWireIn)
    /\ weof = TRUE
    /\ ioErrMax = MaxIoErrs
    /\ hist = TRUE

NextRead == \E blen \in 0..MaxBuf : PollRead(blen)

SpecRead == InitRead /\ [][NextRead]_vars

\* A writer: the transport starts empty and open
InitWrite ==
    /\ InitAdapter
    /\ wire = <<>>
    /\ weof = FALSE
    /\ ioErrMax = MaxIoErrs
    /\ hist = TRUE

NextWrite ==
    \/ \E data \in SeqsUpTo(InBytes, MaxBuf) : PollWrite(data)
    \/ PollFlush
    \/ PollClose

SpecWrite == InitWrite /\ [][NextWrite]_vars

\* An adapter used on one side only: a reader of the peer's stream, or a
\* writer on an empty transport.  A reader's transport is at EOF and open
\* (weof and not closed); a writer's is at EOF exactly when it is closed.
InitEither == InitRead \/ InitWrite

NextEither ==
    \/ (weof /\ ~closed) /\ NextRead
    \/ (weof = closed) /\ NextWrite

SpecEither == InitEither /\ [][NextEither]_vars

\* A writer whose session encrypts and whose transport is healthy: it returns
\* no error and no zero-length write.  The caller's writes leave the one
\* encryption a flush may need within MaxFrames.  A poll_flush that moves
\* bytes or does not return Pending is taken again and again: the caller
\* keeps polling, and the transport does not answer Pending for ever.
InitLive ==
    /\ InitAdapter
    /\ wire = <<>>
    /\ weof = FALSE
    /\ ioErrMax = 0
    /\ hist = TRUE

\* the calls of a poll as a healthy transport and session answer them
Healthy(log) == \A i \in 1..Len(log) : log[i].res \in {"Ok", "Pending"}

LiveWrite(data) ==
    /\ PollWrite(data)
    /\ Healthy(iolog')
    /\ write_state'.tag = "BufferData" => session'.sn < MaxFrames

LiveFlush == PollFlush /\ Healthy(iolog')

FlushProgress ==
    /\ lastOp' = "flush"
    /\ LiveFlush
    /\ wire' # wire \/ lastRet'.kind # "Pending"

\* the caller's bytes are zeros: their values play no part in a flush
NextLive ==
    \/ \E k \in 0..MaxBuf : LiveWrite(Zeros(k))
    \/ LiveFlush

SpecLive == InitLive /\ [][NextLive]_vars /\ WF_vars(FlushProgress)

\* Two adapters back to back with matching sessions: what the writer puts on
\* the transport is what the reader's transport hands out, and the reader
\* sees EOF once the writer has closed.  The transport does not fail, and the
\* history of the most recent poll is not kept.
InitPipe ==
    /\ InitAdapter
    /\ wire = <<>>
    /\ weof = FALSE
    /\ ioErrMax = 0
    /\ hist = FALSE

NextPipe ==
    \/ \E data \in SeqsUpTo(InBytes, MaxBuf) : PollWrite(data)
    \/ PollFlush
    \/ PollClose
    \/ \E blen \in 0..MaxBuf : PollRead(blen)

SpecPipe == InitPipe /\ [][NextPipe]_vars

---------------------------------------------------------------------------
(* Auxiliary definitions of the properties *)

ReadTerminal == read_state.tag \in {"Eof", "DecErr"}
WriteTerminal == write_state.tag \in {"Eof", "EncErr"}

\* what a read terminal state answers
ReadTerminalRet(rs) ==
    CASE rs.tag = "Eof" /\ rs.ok -> Ok(0)
      [] rs.tag = "Eof" /\ ~rs.ok -> UnexpectedEof
      [] OTHER -> InvalidData

\* what a write terminal state answers
WriteTerminalRet(ws) == IF ws.tag = "Eof" THEN WriteZero ELSE InvalidData

\* the transport calls of kind op made by the most recent poll
Calls(op) == {i \in 1..Len(iolog) : iolog[i].op = op}

\* A frame as the wire format defines it: the big-endian length of the
\* ciphertext of plain under nonce n, then the ciphertext
FrameOf(n, plain) ==
    LET ct == Cipher(n, plain) \o <<Mac(n, plain)>>
    IN  <<Len(ct) \div ByteBase, Len(ct) % ByteBase>> \o ct

\* The plaintext a stream of whole, authentic frames carries, frames of
\* length zero skipped: [ok, plain], ok false when w is no such stream
RECURSIVE WirePlain(_, _)
WirePlain(w, n) ==
    IF w = <<>> THEN [ok |-> TRUE, plain |-> <<>>]
    ELSE IF Len(w) < 2 THEN [ok |-> FALSE, plain |-> <<>>]
    ELSE LET len == w[1] * ByteBase + w[2]
             rest == SubSeq(w, 3 + len, Len(w))
         IN  IF Len(w) < 2 + len THEN [ok |-> FALSE, plain |-> <<>>]
             ELSE IF len = 0 THEN WirePlain(rest, n)
             ELSE LET pt == Decipher(n, SubSeq(w, 3, 1 + len))
                      more == WirePlain(rest, n + 1)
                  IN  IF w[2 + len] = Mac(n, pt) /\ more.ok
                      THEN [ok |-> TRUE, plain |-> pt \o more.plain]
                      ELSE [ok |-> FALSE, plain |-> <<>>]

---------------------------------------------------------------------------
(* C1: once the read state is Eof(clean), Eof(unexpected) or DecErr, every *)
(* later poll_read leaves the read state unchanged, returns that state's   *)
(* result (Ok(0), UnexpectedEof, InvalidData), takes nothing from the      *)
(* transport and delivers no byte; the state was entered with that result. *)
C1_ReadTerminalSticky ==
    /\ [](ReadTerminal => lastRet = ReadTerminalRet(read_state))
    /\ [][ReadTerminal =>
            /\ read_state' = read_state
            /\ lastRet' = ReadTerminalRet(read_state)
            /\ delivered' = delivered
            /\ rpos' = rpos]_vars

\* a poll_read that started in DecErr with a whole authentic frame still unread
C1_Witness ==
    /\ lastOp = "read"
    /\ lastFrom.tag = "DecErr"
    /\ read_state.tag = "DecErr"
    /\ lastRet = InvalidData
    /\ \E n \in 0..1 : WirePlain(SubSeq(wire, rpos + 1, Len(wire)), n).ok
    /\ rpos < Len(wire)

---------------------------------------------------------------------------
(* C2: once the write state is Eof or EncErr, every later poll_write and   *)
(* poll_flush leaves the write state unchanged, makes no write call on the *)
(* transport (the wire does not grow) and returns that state's error kind  *)
(* (WriteZero for Eof, InvalidData for EncErr); the state was entered with *)
(* that error.                                                             *)
C2_WriteTerminalSticky ==
    /\ [](WriteTerminal => lastRet = WriteTerminalRet(write_state))
    /\ [][WriteTerminal /\ lastOp' \in {"write", "flush"} =>
            /\ write_state' = write_state
            /\ wire' = wire
            /\ \A i \in 1..Len(iolog') : iolog'[i].op # "write"
            /\ lastRet' = WriteTerminalRet(write_state)]_vars

\* a poll_write that started in Eof while a frame was only partly on the wire
C2_Witness ==
    /\ lastOp = "write"
    /\ lastFrom.tag = "Eof"
    /\ write_state.tag = "Eof"
    /\ lastRet = WriteZero
    /\ unwritten # {}
    /\ wire # <<>>

---------------------------------------------------------------------------
(* C3: for a wire stream of whole authentic frames, delivered in chunks of *)
(* any size with Pending anywhere and no transport error, the bytes        *)
(* poll_read has returned so far are always a prefix of the frames'        *)
(* plaintexts concatenated in wire order, no call returns an error, and    *)
(* when the read side reaches the end of the stream it is a clean EOF and  *)
(* the bytes returned are exactly that concatenation.                      *)
C3_InOrderDelivery ==
    (WirePlain(wire, 0).ok /\ ioErrs = 0) =>
        /\ IsPrefix(delivered, WirePlain(wire, 0).plain)
        /\ lastRet.kind \in {"None", "Ok", "Pending"}
        /\ lastRet.kind = "Ok" /\ lastOp = "read" =>
             /\ lastRet.n <= Len(delivered)
             /\ lastRet.n = 0 =>
                  \/ read_state.tag = "Eof"
                  \/ read_state.tag \in {"ReadLen", "CopyData"}
        /\ read_state.tag # "DecErr"
        /\ read_state.tag = "Eof" =>
             /\ read_state.ok
             /\ delivered = WirePlain(wire, 0).plain
        /\ (rpos = Len(wire) /\ read_state.tag = "ReadLen") =>
             delivered = WirePlain(wire, 0).plain

\* two frames that both carry plaintext were read to a clean EOF, the first
\* of them through more than one poll_read
C3_Witness ==
    /\ WirePlain(wire, 0).ok
    /\ ioErrs = 0
    /\ read_state = RS_Eof(TRUE)
    /\ Len(wire) = 8
    /\ Len(delivered) = 2
    /\ wire[1] * ByteBase + wire[2] = 2
    /\ delivered[1] # delivered[2]
    /\ lastFrom.tag = "ReadLen"

---------------------------------------------------------------------------
(* C4: as long as the transport returns no error, the bytes it has         *)
(* accepted are a prefix of a sequence of frames, each the two-byte        *)
(* big-endian length of a ciphertext followed by exactly that ciphertext,  *)
(* whose plaintexts concatenated in wire order are a prefix of the bytes   *)
(* poll_write has accepted.                                                *)

\* w is a prefix of such a sequence of frames under nonces n, n+1, ..,
\* carrying a prefix of rest
RECURSIVE FramesPrefix(_, _, _)
FramesPrefix(w, n, rest) ==
    \/ w = <<>>
    \/ \E k \in 0..Min(MAX_WRITE_BUF_LEN, Len(rest)) :
         LET f == FrameOf(n, SubSeq(rest, 1, k))
         IN  IF Len(f) <= Len(w)
             THEN /\ SubSeq(w, 1, Len(f)) = f
                  /\ FramesPrefix(SubSeq(w, Len(f) + 1, Len(w)), n + 1,
                                  SubSeq(rest, k + 1, Len(rest)))
             ELSE IsPrefix(w, f)

C4_WireIsFramesOfAccepted == (ioErrs = 0) => FramesPrefix(wire, 0, accepted)

\* two whole frames on the wire, a full buffer and a flushed remainder
C4_Witness ==
    /\ ioErrs = 0
    /\ Len(accepted) = MAX_WRITE_BUF_LEN + 1
    /\ encrypted = accepted
    /\ unwritten = {}
    /\ write_state = WS_Init
    /\ Len(wire) = 2 * 3 + Len(accepted)

---------------------------------------------------------------------------
(* C5: round trip.  With a writer and a reader back to back, whatever the  *)
(* sizes of the transport's reads and writes and wherever it answers       *)
(* Pending, the bytes poll_read has returned are a prefix of the bytes     *)
(* poll_write has accepted, the reader never fails, and once the writer    *)
(* has flushed everything it accepted and the reader has taken the whole   *)
(* wire (or seen its EOF) the bytes returned are exactly the bytes         *)
(* accepted.                                                               *)
C5_RoundTrip ==
    /\ IsPrefix(delivered, accepted)
    /\ read_state.tag # "DecErr"
    /\ read_state.tag = "Eof" => (read_state.ok /\ delivered = accepted)
    /\ (/\ write_state = WS_Init
        /\ encrypted = accepted
        /\ rpos = Len(wire)
        /\ read_state.tag = "ReadLen") => delivered = accepted

\* MaxAccepted bytes went through two frames and the reader saw the EOF
C5_Witness ==
    /\ Len(accepted) = MaxAccepted
    /\ delivered = accepted
    /\ session.rn = 2
    /\ closed
    /\ read_state = RS_Eof(TRUE)

---------------------------------------------------------------------------
(* C6: with no transport error, when the read side is in Eof it is         *)
(* Eof(clean), answering Ok(0), exactly when the stream ended before any   *)
(* byte of a length prefix, that is on a frame boundary; an EOF after one  *)
(* length byte gives Eof(unexpected) and UnexpectedEof.                    *)

\* w is a sequence of whole frames, going by the length prefixes alone
RECURSIVE EndsOnFrameBoundary(_)
EndsOnFrameBoundary(w) ==
    \/ w = <<>>
    \/ /\ Len(w) >= 2
       /\ Len(w) >= 2 + w[1] * ByteBase + w[2]
       /\ EndsOnFrameBoundary(SubSeq(w, 3 + w[1] * ByteBase + w[2], Len(w)))

C6_EofClassifiedByPrefix ==
    (ioErrs = 0 /\ read_state.tag = "Eof") =>
        /\ read_state.ok <=> EndsOnFrameBoundary(wire)
        /\ lastRet = IF EndsOnFrameBoundary(wire) THEN Ok(0) ELSE UnexpectedEof

---------------------------------------------------------------------------
(* C7: a poll_flush entered in Init, or in BufferData with off = 0, does   *)
(* not encrypt and writes nothing to the transport: its only transport     *)
(* call is the transport's flush.                                          *)
C7_EmptyFlushWritesNothing ==
    (/\ lastOp = "flush"
     /\ \/ lastFrom.tag = "Init"
        \/ lastFrom.tag = "BufferData" /\ lastFrom.off = 0) =>
        /\ Calls("encrypt") = {}
        /\ Calls("write") = {}
        /\ Len(iolog) = 1
        /\ iolog[1].op = "flush"

---------------------------------------------------------------------------
(* C8: poll_close and a failing flush step.                                *)

\* the flush step of the most recent poll failed
FlushStepFailed ==
    \/ lastRet.kind \in {"WriteZero", "InvalidData"}
    \/ \E i \in 1..Len(iolog) : iolog[i].op \in {"write", "flush"} /\ iolog[i].res = "Err"

\* C8 as claimed: when the flush step of poll_close fails, the flush error
\* is returned and close is still polled on the transport
C8_CloseStillPolled ==
    (lastOp = "close" /\ FlushStepFailed) =>
        /\ lastRet.kind \in {"WriteZero", "InvalidData", "IoErr"}
        /\ Calls("close") # {}

\* C8 as amended: when the flush step of poll_close fails, also from Eof or
\* EncErr, the flush error is returned and close is not polled on the
\* transport; close is polled only right after the transport's flush
\* returned Ready(Ok), as the last call of the poll.
C8_CloseOnlyAfterFlush ==
    (lastOp = "close") =>
        /\ FlushStepFailed =>
             /\ lastRet.kind \in {"WriteZero", "InvalidData", "IoErr"}
             /\ lastRet.kind = "WriteZero" <=> write_state.tag = "Eof"
             /\ lastRet.kind = "InvalidData" <=> write_state.tag = "EncErr"
             /\ Calls("close") = {}
             /\ ~closed
        /\ Calls("close") # {} =>
             /\ Calls("close") = {Len(iolog)}
             /\ Len(iolog) >= 2
             /\ iolog[Len(iolog) - 1] = Step("flush", "Ok")
             /\ write_state = WS_Init
        /\ closed <=> (lastRet.kind = "Ok")

\* a poll_close entered in EncErr returned InvalidData and left the transport open
C8_Witness ==
    /\ lastOp = "close"
    /\ lastFrom.tag = "EncErr"
    /\ lastRet = InvalidData
    /\ Calls("close") = {}
    /\ ~closed

---------------------------------------------------------------------------
(* C9: poll_flush returns Ready(Ok) only if in that call the transport's   *)
(* flush returned Ready(Ok), as the last transport call and the only       *)
(* flush, when every byte accepted by poll_write had been encrypted and    *)
(* every byte of every frame (prefix and ciphertext) had been accepted by  *)
(* the transport; the write state is then Init.                            *)
C9_FlushOkMeansDrained ==
    (lastOp = "flush" /\ lastRet.kind = "Ok") =>
        /\ write_state = WS_Init
        /\ iolog # <<>>
        /\ iolog[Len(iolog)] = Step("flush", "Ok")
        /\ Calls("flush") = {Len(iolog)}
        /\ encrypted = accepted
        /\ unwritten = {}

\* a poll_flush that encrypted a partial buffer, wrote the frame and flushed
C9_Witness ==
    /\ lastOp = "flush"
    /\ lastRet.kind = "Ok"
    /\ lastFrom.tag = "BufferData"
    /\ lastFrom.off = 1
    /\ Len(accepted) = MaxAccepted
    /\ Calls("write") # {}

---------------------------------------------------------------------------
(* C10: one poll_write call and what it does.                              *)

\* the most recent poll wrote bytes to the transport
WroteBytes == \E i \in 1..Len(iolog) : iolog[i] = Step("write", "Ok")

\* C10 as claimed: no single poll_write both writes frame bytes to the
\* transport and accepts caller bytes
C10_CopyOrEmitNotBoth ==
    (lastOp = "write") => ~(WroteBytes /\ lastRet.kind = "Ok" /\ lastRet.n > 0)

\* C10 as amended: a poll_write entered in Init or BufferData makes no
\* transport call, and a poll_write copies caller bytes at most once and
\* makes no transport call after copying; a call entered in WriteLen or
\* WriteData may write the rest of the frame in flight and then, the frame
\* complete, accept caller bytes in the same call.
C10_CopyLastAndAlone ==
    (lastOp = "write") =>
        /\ lastFrom.tag \in {"Init", "BufferData"} => Calls("write") = {}
        /\ Cardinality(Calls("copy")) <= 1
        /\ \A i \in Calls("copy") : \A j \in Calls("write") : j < i
        /\ (lastRet.kind = "Ok" /\ lastRet.n > 0) => Calls("copy") # {}
        /\ Calls("copy") # {} =>
             \/ lastRet.kind = "Ok" /\ lastRet.n > 0
             \/ lastRet = InvalidData /\ write_state = WS_EncErr
        /\ (WroteBytes /\ Calls("copy") # {}) =>
             /\ lastFrom.tag \in {"WriteLen", "WriteData"}
             /\ unwritten = {} \/ Calls("encrypt") # {}

\* a poll_write entered in WriteLen wrote the whole frame and accepted bytes
C10_Witness ==
    /\ lastOp = "write"
    /\ lastFrom.tag = "WriteLen"
    /\ lastFrom.off = 0
    /\ WroteBytes
    /\ lastRet.kind = "Ok"
    /\ lastRet.n > 0

---------------------------------------------------------------------------
(* C11: no poll encrypts more than MAX_WRITE_BUF_LEN bytes of plaintext,   *)
(* and every frame length stored in WriteLen or WriteData is at most       *)
(* MAX_NOISE_PKG_LEN and no more than the write_crypto slice holds, so the *)
(* two-byte prefix stored in WriteLen is the length itself, not a          *)
(* truncation of it.                                                       *)
C11_FrameBound ==
    /\ [](write_state.tag \in {"WriteLen", "WriteData"} =>
            /\ write_state.len <= MAX_NOISE_PKG_LEN
            /\ write_state.len <= Len(buffer.write_crypto)
            /\ write_state.len >= 1)
    /\ [](write_state.tag = "WriteLen" =>
            from_be_bytes(write_state.buf) = write_state.len)
    /\ [][/\ Len(encrypted') <= Len(encrypted) + MAX_WRITE_BUF_LEN
          /\ session.sn' <= session.sn + 1]_vars

\* a full buffer was encrypted by poll_write: the longest frame there is
C11_Witness ==
    /\ lastOp = "write"
    /\ write_state.tag = "WriteLen"
    /\ write_state.len = MAX_WRITE_BUF_LEN + 1
    /\ Len(encrypted) = MAX_WRITE_BUF_LEN

---------------------------------------------------------------------------
(* C12: a transport error during poll_read, poll_write or poll_flush.      *)

\* the read state with Init read as what its arm makes of it (io.rs:174-176)
EnteredRead(rs) == IF rs.tag = "Init" THEN RS_ReadLen(<<0, 0>>, 0) ELSE rs

\* the most recent poll was a poll_read, poll_write or poll_flush that
\* returned the transport's error
TransportErrored == lastRet = IoErr /\ lastOp \in {"read", "write", "flush"}

---------------------------------------------------------------------------
(* C13: frames of length zero are skipped.                                 *)

\* w with every frame of length zero (prefix 00 00) removed; the frames are
\* found by their length prefixes, and an unfinished last frame is kept
RECURSIVE StripZeroFrames(_)
StripZeroFrames(w) ==
    IF Len(w) < 2 THEN w
    ELSE LET len == w[1] * ByteBase + w[2]
         IN  IF len = 0 THEN StripZeroFrames(SubSeq(w, 3, Len(w)))
             ELSE IF Len(w) < 2 + len THEN w
             ELSE SubSeq(w, 1, 2 + len) \o StripZeroFrames(SubSeq(w, 3 + len, Len(w)))

\* What a reader that knows no frame of length zero makes of the whole
\* stream w followed by EOF, from receive nonce n: the bytes it delivers and
\* how it ends ("clean", "unexpected" or "invalid").  It reads a prefix
\* 00 00 as a frame with no ciphertext, which it cannot finish.
RECURSIVE PlainDecode(_, _)
PlainDecode(w, n) ==
    IF Len(w) < 2 THEN [plain |-> <<>>, end |-> "clean"]
    ELSE LET len == w[1] * ByteBase + w[2]
             d == read_message(n, SubSeq(w, 3, 2 + len))
             more == PlainDecode(SubSeq(w, 3 + len, Len(w)), n + 1)
         IN  IF len = 0 \/ Len(w) < 2 + len THEN [plain |-> <<>>, end |-> "unexpected"]
             ELSE IF ~d.ok THEN [plain |-> <<>>, end |-> "invalid"]
             ELSE [plain |-> d.out \o more.plain, end |-> more.end]

\* how the read side has ended
ReadEnd ==
    CASE read_state.tag = "Eof" /\ read_state.ok -> "clean"
      [] read_state.tag = "Eof" /\ ~read_state.ok -> "unexpected"
      [] read_state.tag = "DecErr" -> "invalid"
      [] OTHER -> "open"

\* C13, the stream as a whole: with no transport error, what poll_read has
\* delivered is a prefix of what the stream without its frames of length
\* zero decodes to, and once the read side has ended it has delivered all
\* of it and ended the same way.  One poll: a poll_read that starts between
\* frames or inside a prefix and takes only bytes of prefixes 00 00 from the
\* transport does not return to the caller with a result of its own; it
\* returns Pending or the transport's error, or Ok(0) for the EOF that
\* follows the last of them.
C13_ZeroFramesSkipped ==
    /\ []((ioErrs = 0) =>
            LET ref == PlainDecode(StripZeroFrames(wire), 0)
            IN  /\ IsPrefix(delivered, ref.plain)
                /\ ReadTerminal => (delivered = ref.plain /\ ReadEnd = ref.end))
    /\ [][(/\ lastOp' = "read"
           /\ read_state.tag \in {"Init", "ReadLen"}
           /\ read_state.off = 1 => read_state.buf[1] = 0
           /\ rpos' > rpos
           /\ \A i \in (rpos + 1)..rpos' : wire[i] = 0) =>
             \/ lastRet'.kind \in {"Pending", "IoErr"}
             \/ /\ lastRet' = Ok(0)
                /\ read_state' = RS_Eof(TRUE)
                /\ rpos' = Len(wire)]_vars

\* a frame of length zero before and after a frame that carries a byte: the
\* byte was delivered under nonce 0 and the stream ended cleanly
C13_Witness ==
    /\ ioErrs = 0
    /\ Len(wire) = 8
    /\ SubSeq(wire, 1, 2) = <<0, 0>>
    /\ SubSeq(wire, 7, 8) = <<0, 0>>
    /\ Len(delivered) = 1
    /\ session.rn = 1
    /\ ReadEnd = "clean"

---------------------------------------------------------------------------
(* C14: the read and the write engine are independent.                     *)

\* what poll_read works on, and what poll_write, poll_flush and poll_close
\* work on
ReadSide == <<read_state, buffer.read, buffer.read_crypto, session.rn, rpos, delivered>>
WriteSide ==
    <<write_state, buffer.write, buffer.write_crypto, session.sn, wire, accepted,
      encrypted, unwritten, closed>>

\* the read side has something to take: unread bytes on the transport, or
\* decrypted bytes not yet copied out
ReadHasWork ==
    \/ rpos < Len(wire)
    \/ read_state.tag = "CopyData" /\ read_state.off < read_state.len

\* C14: no poll changes both sides (poll_read leaves the write state, the
\* write buffers and the send nonce alone, the write-side polls leave the
\* read state, the read buffers and the receive nonce alone); and wherever
\* the other side stands, suspended or not, a poll_read with work to do can
\* take bytes, a poll_write on a non-terminal write side can accept a byte,
\* and a poll_flush can finish with Ready(Ok) in Init.
C14_SidesIndependent ==
    /\ [][ReadSide' = ReadSide \/ WriteSide' = WriteSide]_vars
    /\ []((~ReadTerminal /\ ReadHasWork) =>
            \E r \in poll_read(MaxBuf) : r.io.pos > rpos \/ r.out # <<>>)
    /\ [](~WriteTerminal =>
            /\ \E r \in poll_write(<<0>>) : r.ret = Ok(1)
            /\ \E r \in poll_flush : r.ret = Ok(0) /\ r.ws = WS_Init)

\* both sides stand inside a length prefix: the writer is suspended after
\* the first prefix byte of its second frame, and the reader has delivered
\* the whole first frame and taken that byte
C14_Witness ==
    /\ write_state.tag = "WriteLen"
    /\ write_state.off = 1
    /\ session.sn = 2
    /\ read_state.tag = "ReadLen"
    /\ read_state.off = 1
    /\ rpos = Len(wire)
    /\ Len(delivered) = MAX_WRITE_BUF_LEN

---------------------------------------------------------------------------
(* C15: write batching.  One-byte poll_write calls on a fresh adapter, no  *)
(* flush, a transport that is always ready.                                *)

\* every call of the log went through: no Pending, no zero-length write, no error
AllReady(log) == \A i \in 1..Len(log) : log[i].res = "Ok"

\* the adapter has accepted MAX_WRITE_BUF_LEN - 1 bytes and encrypted nothing
OneByteShort ==
    /\ write_state = WS_BufferData(MAX_WRITE_BUF_LEN - 1)
    /\ Len(accepted) = MAX_WRITE_BUF_LEN - 1
    /\ session.sn = 0
    /\ wire = <<>>

\* the first full batch is encrypted and none of its frame is written
FirstFrameStored ==
    /\ write_state.tag = "WriteLen"
    /\ write_state.off = 0
    /\ session.sn = 1
    /\ encrypted = accepted
    /\ Len(accepted) = MAX_WRITE_BUF_LEN
    /\ wire = <<>>

\* after the first full batch, with bytes of a second batch buffered: one
\* frame is on the wire and the rest of the accepted bytes are in
\* buffer.write, not on the transport
OneFrameRestBuffered ==
    (/\ ioErrs = 0
     /\ session.sn = 1
     /\ Len(encrypted) = MAX_WRITE_BUF_LEN
     /\ write_state.tag = "BufferData") =>
        /\ wire = FrameOf(0, encrypted)
        /\ unwritten = {}
        /\ write_state.off = Len(accepted) - MAX_WRITE_BUF_LEN
        /\ accepted = encrypted \o SubSeq(buffer.write, 1, write_state.off)

\* C15 as claimed: the call that accepts byte number MAX_WRITE_BUF_LEN
\* encrypts the batch and emits its frame; afterwards one frame is on the
\* wire and the rest is buffered
C15_EmitAtFillingCall ==
    /\ OneByteShort =>
         \A b \in InBytes : \A r \in poll_write(<<b>>) :
            r.ret = Ok(1) =>
                /\ r.enc = accepted \o <<b>>
                /\ r.io.out = FrameOf(0, r.enc)
    /\ OneFrameRestBuffered

\* C15 as amended: the call that accepts byte number MAX_WRITE_BUF_LEN
\* encrypts the batch and stores its frame in WriteLen without any transport
\* call; the next poll_write call, on a transport that is ready, writes the
\* whole frame and accepts its byte in BufferData; after it exactly one
\* frame is on the wire and the bytes accepted beyond the batch are held in
\* BufferData, not written to the transport.
C15_EmitAtNextCall ==
    /\ OneByteShort =>
         \A b \in InBytes : \A r \in poll_write(<<b>>) :
            r.ret = Ok(1) =>
                /\ r.enc = accepted \o <<b>>
                /\ r.ws = WS_WriteLen(MAX_WRITE_BUF_LEN + 1,
                                      to_be_bytes(MAX_WRITE_BUF_LEN + 1), 0)
                /\ r.io.out = <<>>
                /\ r.io.log = <<Step("copy", "Ok"), Step("encrypt", "Ok")>>
    /\ FirstFrameStored =>
         \A b \in InBytes : \A r \in poll_write(<<b>>) :
            AllReady(r.io.log) =>
                /\ r.ret = Ok(1)
                /\ r.io.out = FrameOf(0, encrypted)
                /\ r.io.unw = {}
                /\ r.ws = WS_BufferData(1)
                /\ r.write[1] = b
                /\ r.enc = encrypted
    /\ OneFrameRestBuffered

\* the poll_write after the one that filled the buffer wrote the frame and
\* accepted one more byte
C15_Witness ==
    /\ lastOp = "write"
    /\ lastFrom.tag = "WriteLen"
    /\ lastFrom.off = 0
    /\ AllReady(iolog)
    /\ ioErrs = 0
    /\ session.sn = 1
    /\ Len(accepted) = MAX_WRITE_BUF_LEN + 1
    /\ write_state = WS_BufferData(1)
    /\ wire = FrameOf(0, encrypted)

---------------------------------------------------------------------------
(* C16: flush of a partial buffer.  A fresh adapter has accepted n bytes,  *)
(* 0 < n < MAX_WRITE_BUF_LEN, and is flushed; the transport returns no     *)
(* error.                                                                  *)

\* n bytes are buffered on a fresh adapter, 0 < n < MAX_WRITE_BUF_LEN
PartialBuffer ==
    /\ write_state.tag = "BufferData"
    /\ write_state.off \in 1..(MAX_WRITE_BUF_LEN - 1)
    /\ Len(accepted) = write_state.off
    /\ session.sn = 0
    /\ wire = <<>>

\* C16: a poll_flush on the partial buffer that returns Ready(Ok) has
\* written exactly the frame of the n bytes; a poll_flush that returns
\* Ready(Ok) in this or a later poll, one encryption made in all, leaves
\* exactly that frame on the wire; and no poll_flush polls the transport's
\* flush before every byte of the frame is written: the flush is its last
\* transport call.
C16_PartialFlushOneFrame ==
    /\ PartialBuffer =>
         \A r \in poll_flush :
            r.ret = Ok(0) =>
                /\ r.enc = accepted
                /\ r.io.out = FrameOf(0, accepted)
                /\ r.sn = 1
                /\ r.ws = WS_Init
    /\ (/\ lastOp = "flush"
        /\ lastRet.kind = "Ok"
        /\ ioErrs = 0
        /\ session.sn = 1
        /\ Len(accepted) \in 1..(MAX_WRITE_BUF_LEN - 1)) =>
            /\ encrypted = accepted
            /\ wire = FrameOf(0, accepted)
    /\ (lastOp = "flush" /\ Calls("flush") # {}) =>
            /\ Calls("flush") = {Len(iolog)}
            /\ unwritten = {}

\* a flush of one buffered byte that took several polls: the last one
\* entered in WriteData, wrote the rest of the frame and flushed
C16_Witness ==
    /\ lastOp = "flush"
    /\ lastRet.kind = "Ok"
    /\ lastFrom.tag = "WriteData"
    /\ lastFrom.off > 0
    /\ ioErrs = 0
    /\ session.sn = 1
    /\ Len(accepted) = 1
    /\ wire = FrameOf(0, accepted)
    /\ write_state = WS_Init

---------------------------------------------------------------------------
(* C17: in Init or BufferData, a poll_write with a non-empty caller buffer *)
(* never returns Pending and makes no transport call: it copies            *)
(* n = min(MAX_WRITE_BUF_LEN - off, caller length) > 0 bytes and returns   *)
(* Ready(Ok(n)), the bytes not yet on the wire; or, when the copy fills    *)
(* the buffer and the encryption fails, it returns InvalidData in EncErr.  *)
C17_BufferingNeverWaits ==
    (write_state.tag \in {"Init", "BufferData"}) =>
        \A data \in SeqsUpTo(InBytes, MaxBuf) \ {<<>>} :
            LET off == IF write_state.tag = "Init" THEN 0 ELSE write_state.off
                n == Min(MAX_WRITE_BUF_LEN - off, Len(data))
            IN  /\ n > 0
                /\ \A r \in poll_write(data) :
                     /\ r.io.out = <<>>
                     /\ \A i \in 1..Len(r.io.log) : r.io.log[i].op \in {"copy", "encrypt"}
                     /\ SubSeq(r.write, off + 1, off + n) = SubSeq(data, 1, n)
                     /\ \/ /\ r.ret = Ok(n)
                           /\ r.ws.tag = IF off + n = MAX_WRITE_BUF_LEN
                                         THEN "WriteLen" ELSE "BufferData"
                        \/ /\ r.ret = InvalidData
                           /\ r.ws = WS_EncErr
                           /\ off + n = MAX_WRITE_BUF_LEN

\* a poll_write that filled the buffer returned Ok at once: the frame is
\* stored, nothing is on the wire
C17_Witness ==
    /\ lastOp = "write"
    /\ lastFrom.tag = "BufferData"
    /\ lastFrom.off = MAX_WRITE_BUF_LEN - 1
    /\ lastRet = Ok(1)
    /\ iolog = <<Step("copy", "Ok"), Step("encrypt", "Ok")>>
    /\ write_state.tag = "WriteLen"
    /\ write_state.off = 0
    /\ wire = <<>>

---------------------------------------------------------------------------
(* C18: in every state stored between polls the progress counters are in   *)
(* range.  ReadLen and WriteLen: off in {0, 1}.  ReadData: 0 <= off < len  *)
(* <= MAX_NOISE_PKG_LEN.  CopyData: 0 <= off <= len, len the length of a   *)
(* decrypted plaintext (a frame's length less its tag).  BufferData:       *)
(* 0 <= off < MAX_WRITE_BUF_LEN.  WriteData: 0 <= off < len.  Every slice  *)
(* a poll takes with them lies inside its region of the buffer.            *)
C18_CountersInRange ==
    /\ read_state.tag = "ReadLen" => read_state.off \in {0, 1}
    /\ read_state.tag = "ReadData" =>
         /\ 0 <= read_state.off
         /\ read_state.off < read_state.len
         /\ read_state.len <= MAX_NOISE_PKG_LEN
         /\ read_state.len <= Len(buffer.read)
    /\ read_state.tag = "CopyData" =>
         /\ 0 <= read_state.off
         /\ read_state.off <= read_state.len
         /\ read_state.len <= MAX_NOISE_PKG_LEN - 1
         /\ read_state.len <= Len(buffer.read_crypto)
    /\ write_state.tag = "BufferData" =>
         /\ 0 <= write_state.off
         /\ write_state.off < MAX_WRITE_BUF_LEN
         /\ MAX_WRITE_BUF_LEN <= Len(buffer.write)
    /\ write_state.tag = "WriteLen" => write_state.off \in {0, 1}
    /\ write_state.tag = "WriteData" =>
         /\ 0 <= write_state.off
         /\ write_state.off < write_state.len
         /\ write_state.len <= Len(buffer.write_crypto)
    /\ Len(buffer.read) = borrow_mut.read
    /\ Len(buffer.read_crypto) = borrow_mut.read_crypto
    /\ Len(buffer.write) = borrow_mut.write
    /\ Len(buffer.write_crypto) = borrow_mut.write_crypto

\* the reader has delivered the plaintext of a first frame and stands one
\* byte short of a second, the longest frame there is
C18_Witness ==
    /\ read_state.tag = "ReadData"
    /\ read_state.len = MAX_NOISE_PKG_LEN
    /\ read_state.off = MAX_NOISE_PKG_LEN - 1
    /\ session.rn = 1
    /\ Len(delivered) = 1

---------------------------------------------------------------------------
(* C19: a poll_read with a non-empty caller buffer returns Ok(0) only when *)
(* the read side has reached Eof(clean); a frame whose plaintext is empty  *)
(* does not make it return Ok(0) while the stream is open.                 *)
C19_OkZeroOnlyAtEof ==
    (lastOp = "read" /\ lastLen > 0 /\ lastRet = Ok(0)) => read_state = RS_Eof(TRUE)

---------------------------------------------------------------------------
(* C20: the progress made inside a length prefix is stored, also when the  *)
(* transport returns an error in the poll that made it.                    *)

\* the start of the frame that position pos of the stream w lies in, the
\* frames found by their length prefixes from position start on
RECURSIVE FrameStart(_, _, _)
FrameStart(w, start, pos) ==
    IF pos < start + 2 \/ Len(w) < start + 2 THEN start
    ELSE LET end == start + 2 + w[start + 1] * ByteBase + w[start + 2]
         IN  IF end <= pos THEN FrameStart(w, end, pos) ELSE start

\* C20: a stored ReadLen records every prefix byte the transport has handed
\* over (off counts them and buf holds them), so a retry does not take a
\* later byte for the first; a stored WriteLen records every prefix byte
\* the transport has accepted, so a retry does not write it again.
C20_PrefixProgressStored ==
    /\ read_state.tag = "ReadLen" =>
         /\ read_state.off = rpos - FrameStart(wire, 0, rpos)
         /\ read_state.off = 1 => read_state.buf[1] = wire[rpos]
    /\ write_state.tag = "WriteLen" =>
         unwritten = (write_state.off + 1)..(2 + write_state.len)

---------------------------------------------------------------------------
(* C21: liveness of flush.  With a session that encrypts, a transport that *)
(* returns no error and no zero-length write and does not answer Pending   *)
(* for ever, and a caller that keeps polling poll_flush, from every        *)
(* non-terminal write state a poll_flush eventually returns Ready(Ok) with *)
(* the write state Init, everything accepted encrypted and written.        *)

FlushReturnedOk ==
    /\ lastOp = "flush"
    /\ lastRet = Ok(0)
    /\ write_state = WS_Init
    /\ encrypted = accepted
    /\ unwritten = {}

C21_FlushCompletes ==
    (write_state.tag \in {"Init", "BufferData", "WriteLen", "WriteData"}) ~> FlushReturnedOk

\* a flush that was suspended inside the ciphertext of a second frame has
\* completed
C21_Witness ==
    /\ FlushReturnedOk
    /\ lastFrom.tag = "WriteData"
    /\ lastFrom.off > 0
    /\ session.sn = 2
    /\ Len(accepted) = MaxAccepted

=============================================================================
